---------------------------- MODULE Spec2Model ----------------------------
(***************************************************************************)
(* Reverse-mode automatic differentiation engine of                        *)
(* 03-advanced/03-reverse-autodiff/autodiff.cpp.                           *)
(*                                                                         *)
(* The heap of Var objects is the sequence `nodes`; a Var* is an index     *)
(* into it (0 is nullptr).  A node is never moved, so an index is a        *)
(* stable address.                                                         *)
(*                                                                         *)
(* A C++ double is modelled by the integer k that stands for the double    *)
(* k / Unit, Unit = 2^FracBits.  Every operation rounds its exact result   *)
(* to the nearest representable number, ties to even: a multiple of        *)
(* 1/Unit with at most `digits` significant bits.  digits = Exact stands   *)
(* for a run whose sums, differences and whole products all fit the 53     *)
(* bits of a double, so that only the 1/Unit grid rounds; a run with       *)
(* digits = MantBits shows the roundings of a double at the model's size.  *)
(* Infinities and NaN are not represented: the actions keep zero out of a  *)
(* divisor and non-positive values out of log.                             *)
(*                                                                         *)
(* A std::function stored in a BackwardEdge is a record naming the lambda  *)
(* (fn) and the pointer it captured besides `result` (cap); it is          *)
(* evaluated by grad_fn against the heap as it is when backward calls it,  *)
(* as the C++ closure is.                                                  *)
(***************************************************************************)
EXTENDS Integers, Sequences, FiniteSets, TLC

\* ------------------------------------------------------------------ bounds
\* Largest number of Var objects on the heap.
MaxNodes == 4
\* Largest number of backward() calls in one run.
MaxPasses == 2
\* Largest number of backward / zero_grad calls a Python caller makes.
MaxPyCalls == 1
\* Largest number of PyVars a Python caller releases.
MaxReleases == 2
\* Largest number of PyVars held at once that Var_init has not yet run on,
\* and largest number of Var objects where Var_new is called on its own.
MaxRaw == 1
MaxRawNodes == 3
\* Values a leaf is constructed with.
LeafVals == {2, 3}
\* Values a Python caller constructs a Var with, and the numbers it passes
\* as operands.
PyLeafVals == {2}
PyNumbers == {3}
\* Largest number of Var objects on the heap where all ten builders are used.
MaxMathNodes == 3
\* Values a leaf is constructed with there, and the exponents given to pow.
MathVals == {0, 1, 2, 3, 4}
PowExps == {2, 3}
\* Largest number of Var objects, largest number of edges of one Var and
\* deepest recursion where traversals are taken call by call.
MaxWalkNodes == 3
MaxEdges == 2
MaxDepth == 6
\* Largest number of Var objects where traversals are taken call by call on
\* graphs that only the builders made.
MaxBuiltNodes == 4
\* Largest number of traversals taken call by call in one run.
MaxWalks == 1
\* Values a leaf is constructed with there.
WalkVals == {1}

\* Largest shape of a LayoutTensor, largest tile_size, and the values of
\* its cells.
MaxRows == 3
MaxCols == 3
MaxTile == 3
CellVals == {1, 2}

\* Largest number of Var objects, and of backward() calls, where forward
\* and reverse mode evaluate one expression with rounded doubles; the
\* values of its variable and of its constants.
MaxModeNodes == 5
MaxModePasses == 1
XVals == {2, 3}
ConstVals == {3}

\* Fraction bits of the model of double.
FracBits == 4
\* Significant bits of a double where its roundings are shown.
MantBits == 3
\* digits of a run in which no sum or whole product is rounded.
Exact == 0

NULL == 0

VARIABLES
    digits   \* the significant bits of a double in this run, or Exact

\* ------------------------------------------------------------- double
Unit == 2 ^ FracBits
\* The double whose value is the integer k.
D(k) == k * Unit

\* n / d rounded to the nearest integer, ties to even (d # 0).
RoundDiv(n, d) ==
    LET m == IF d < 0 THEN -n ELSE n
        e == IF d < 0 THEN -d ELSE d
        q == m \div e
        r == m % e
    IN  IF 2 * r < e THEN q
        ELSE IF 2 * r > e THEN q + 1
        ELSE IF q % 2 = 0 THEN q ELSE q + 1

Abs(k) == IF k < 0 THEN -k ELSE k

\* The spacing of the representable numbers around magnitude a, in 1/Unit:
\* the least power of two p with a < p * 2^digits.
RECURSIVE Spacing(_, _)
Spacing(a, p) ==
    IF digits = Exact \/ a < p * 2 ^ digits THEN p ELSE Spacing(a, 2 * p)

\* The exact n / d (d > 0, in 1/Unit) rounded to a representable number.
Round(n, d) ==
    LET p == Spacing(Abs(n) \div d, 1) IN RoundDiv(n, d * p) * p

\* double operator+, operator-, operator* and operator/
dadd(x, y) == Round(x + y, 1)
dsub(x, y) == Round(x - y, 1)
dmul(x, y) == Round(x * y, Unit)
ddiv(x, y) == IF y < 0 THEN Round(-(x * Unit), -y) ELSE Round(x * Unit, y)

\* std::pow(x, k) for a whole exponent k >= 0.
RECURSIVE pow(_, _)
pow(x, k) == IF k = 0 THEN D(1) ELSE dmul(x, pow(x, k - 1))

\* The library's sin, cos, exp and log, known at the whole arguments 0..4
\* (log at 1..4) in ten-thousandths and rounded to the model's precision.
Frac(m) == Round(m * Unit, 10000)
MathArgs == {D(k) : k \in 0..4}
LogArgs == {D(k) : k \in 1..4}
sin(x) == Frac(<<0, 8415, 9093, 1411, -7568>>[x \div Unit + 1])
cos(x) == Frac(<<10000, 5403, -4161, -9900, -6536>>[x \div Unit + 1])
exp(x) == Frac(<<10000, 27183, 73891, 200855, 545982>>[x \div Unit + 1])
log(x) == Frac(<<0, 6931, 10986, 13863>>[x \div Unit])

VARIABLES
    nodes,   \* the heap: Seq of [val, grad, backward_edges, op]
    trace,   \* ghost: the visits of the most recent backward(), in order:
             \*        [node, grad the node had when its edges were applied]
    last,    \* ghost: the most recent backward/zero_grad call [op, root, zero],
             \*        zero = every grad reachable from root was 0 before it
    round,   \* ghost: progress of backward(f); (zero_grad(f); backward(f))*
             \*        on last.root = f: [phase, snap, n]
    passes,  \* ghost: number of backward() calls so far
    pyvars,  \* the PyVar objects ever created: Seq of [var, alive]; var is
             \* NULL between Var_new and Var_init
    freed,   \* the Var addresses `delete` has been applied to
    calls,   \* ghost: number of Var_backward / Var_zero_grad calls so far
    ub,      \* "none"; "corrupt" once a call has dereferenced a freed Var and
             \* returned; "crashed" once such a call has killed the process;
             \* "nullread" once val or grad has been read through a PyVar
             \* whose var is nullptr, "nullcall" once another method has
             \* been called on one; "doublefree" once a Var has been
             \* deleted a second time
    walk,    \* the traversal of topo_sort / zero_grad_helper taken call by
             \* call: [run, n, kind, root, zero, cyc, stack, visited, order,
             \* entered]; n (ghost) = the traversals begun so far; cyc
             \* (ghost) = the graph reachable from root has a cycle;
             \* run = a traversal is in progress, else the record is the
             \* last traversal's; stack = the frames [node, i] of the calls
             \* not yet returned, i = 0 on entry, else the next edge;
             \* entered (ghost) = the nodes whose body ran, in order
    duals,   \* forward mode: the Dual computed for each Var of the heap
             \* from the same operands by the same operation, Seq of
             \* [val, grad], or <<>> where forward mode is not run
    tensor   \* the LayoutTensor of layout.cpp a caller holds: [rows, cols,
             \* layout, tile_size, data, oob, src, out, got]; oob = an
             \* access has gone outside data; src, out, got are ghosts

vars == <<nodes, trace, last, round, passes, pyvars, freed, calls, ub, walk,
          duals, tensor, digits>>
binding == <<pyvars, freed, calls, ub>>
\* What the reverse-mode engine never touches.
aside == <<duals, tensor, digits>>

Ids == 1..Len(nodes)

\* ------------------------------------------------------------ Var, edges
\* BackwardEdge(inp, fn): the lambda `fn` with its captured operand `cap`
\* and, for op_pow's lambda, its captured exponent n.
BackwardEdge(inp, fn, cap) == [input |-> inp, fn |-> fn, cap |-> cap, n |-> 0]

\* Var(double v) : val(v), grad(0.0) {} ; op is a ghost tag.
Var(v, op, edges) == [val |-> v, grad |-> 0, backward_edges |-> edges, op |-> op]

\* The closure bodies of the op_ builders, run for the edge e of node
\* `result` against heap g.  op_div's second lambda captures a (cap) and b,
\* which is the edge's own input.
grad_fn(g, result, e) ==
    CASE e.fn = "one"    -> dmul(g[result].grad, D(1))
      [] e.fn = "negone" -> dmul(g[result].grad, D(-1))
      [] e.fn = "mulval" -> dmul(g[result].grad, g[e.cap].val)
      [] e.fn = "divval" -> ddiv(g[result].grad, g[e.cap].val)
      [] e.fn = "divsq"  ->
            dmul(g[result].grad,
                 ddiv(-g[e.cap].val, dmul(g[e.input].val, g[e.input].val)))
      [] e.fn = "pow"    ->
            dmul(dmul(g[result].grad, D(e.n)), pow(g[e.cap].val, e.n - 1))
      [] e.fn = "cos"    -> dmul(g[result].grad, cos(g[e.cap].val))
      [] e.fn = "negsin" -> dmul(g[result].grad, -sin(g[e.cap].val))
      [] e.fn = "resval" -> dmul(g[result].grad, g[result].val)

\* ------------------------------------------------------ graph builders
\* Each builder allocates one Var at the end of the heap and returns the
\* heap; the result's address is Len of the returned heap.
new_Var(g, v) == Append(g, Var(v, "leaf", <<>>))

\* op_add with op_sub's lambda on its second edge.
op_add_minus(g, a, b) ==
    Append(g, Var(dadd(g[a].val, g[b].val), "add",
                  << BackwardEdge(a, "one", NULL),
                     BackwardEdge(b, "negone", NULL) >>))
op_add(g, a, b) ==
    Append(g, Var(dadd(g[a].val, g[b].val), "add",
                  << BackwardEdge(a, "one", NULL),
                     BackwardEdge(b, "one", NULL) >>))

\* op_sub with the two lambdas exchanged.
op_sub_swapped(g, a, b) ==
    Append(g, Var(dsub(g[a].val, g[b].val), "sub",
                  << BackwardEdge(a, "negone", NULL),
                     BackwardEdge(b, "one", NULL) >>))
op_sub(g, a, b) ==
    Append(g, Var(dsub(g[a].val, g[b].val), "sub",
                  << BackwardEdge(a, "one", NULL),
                     BackwardEdge(b, "negone", NULL) >>))

\* op_mul whose second edge targets the result itself.
op_mul_self(g, a, b) ==
    Append(g, Var(dmul(g[a].val, g[b].val), "mul",
                  << BackwardEdge(a, "mulval", b),
                     BackwardEdge(Len(g) + 1, "mulval", a) >>))
\* op_mul with each lambda capturing the edge's own operand.
op_mul_swapped(g, a, b) ==
    Append(g, Var(dmul(g[a].val, g[b].val), "mul",
                  << BackwardEdge(a, "mulval", a),
                     BackwardEdge(b, "mulval", b) >>))
op_mul(g, a, b) ==
    Append(g, Var(dmul(g[a].val, g[b].val), "mul",
                  << BackwardEdge(a, "mulval", b),
                     BackwardEdge(b, "mulval", a) >>))

op_neg(g, a) ==
    Append(g, Var(-g[a].val, "neg", << BackwardEdge(a, "negone", NULL) >>))

\* op_div with op_mul's lambda on its first edge.
op_div_mul(g, a, b) ==
    Append(g, Var(ddiv(g[a].val, g[b].val), "div",
                  << BackwardEdge(a, "mulval", b),
                     BackwardEdge(b, "divsq", a) >>))
op_div(g, a, b) ==
    Append(g, Var(ddiv(g[a].val, g[b].val), "div",
                  << BackwardEdge(a, "divval", b),
                     BackwardEdge(b, "divsq", a) >>))

op_pow(g, a, n) ==
    Append(g, Var(pow(g[a].val, n), "pow",
                  << [BackwardEdge(a, "pow", a) EXCEPT !.n = n] >>))

op_sin(g, a) ==
    Append(g, Var(sin(g[a].val), "sin", << BackwardEdge(a, "cos", a) >>))

\* op_cos with op_sin's lambda.
op_cos_cos(g, a) ==
    Append(g, Var(cos(g[a].val), "cos", << BackwardEdge(a, "cos", a) >>))
op_cos(g, a) ==
    Append(g, Var(cos(g[a].val), "cos", << BackwardEdge(a, "negsin", a) >>))

\* op_exp without its add_edge.
op_exp_noedge(g, a) == Append(g, Var(exp(g[a].val), "exp", <<>>))
op_exp(g, a) ==
    Append(g, Var(exp(g[a].val), "exp", << BackwardEdge(a, "resval", NULL) >>))

\* op_log whose result starts with grad 1.
op_log_seeded(g, a) ==
    Append(g, [Var(log(g[a].val), "log", << BackwardEdge(a, "divval", a) >>)
                  EXCEPT !.grad = D(1)])
op_log(g, a) ==
    Append(g, Var(log(g[a].val), "log", << BackwardEdge(a, "divval", a) >>))

\* ------------------------------------------------------------- topo_sort
RECURSIVE topo_sort(_, _, _)
RECURSIVE topo_edges(_, _, _, _)

\* topo_sort with order.push_back(this) moved before the loop (pre-order).
topo_sort_preorder(g, n, st) ==
    IF n \in st.visited THEN st
    ELSE topo_edges(g, n, 1, [order   |-> Append(st.order, n),
                              visited |-> st.visited \cup {n}])

\* topo_sort without the visited test.
topo_sort_revisit(g, n, st) ==
    LET s2 == topo_edges(g, n, 1, [st EXCEPT !.visited = @ \cup {n}])
    IN  [s2 EXCEPT !.order = Append(@, n)]

\* Var::topo_sort(order, visited) on node n; st = [order, visited].
topo_sort(g, n, st) ==
    IF n \in st.visited THEN st
    ELSE LET s1 == [st EXCEPT !.visited = @ \cup {n}]
             s2 == topo_edges(g, n, 1, s1)
         IN  [s2 EXCEPT !.order = Append(@, n)]

\* the `for (auto& edge : backward_edges)` loop of topo_sort, from edge i.
topo_edges(g, n, i, st) ==
    IF i > Len(g[n].backward_edges) THEN st
    ELSE topo_edges(g, n, i + 1, topo_sort(g, g[n].backward_edges[i].input, st))

\* A sequence read from its end: order.rbegin() .. order.rend().
Reverse(o) == [i \in 1..Len(o) |-> o[Len(o) + 1 - i]]

\* The order handed over back to front.
TopoOrder_reversed(g, r) ==
    Reverse(topo_sort(g, r, [order |-> <<>>, visited |-> {}]).order)
\* The order Var::backward computes for root r.
TopoOrder(g, r) == topo_sort(g, r, [order |-> <<>>, visited |-> {}]).order

\* --------------------------------------------------------------- backward
RECURSIVE apply_edges(_, _, _)

\* the inner loop with `=` written for `+=`.
apply_edges_assign(g, node, i) ==
    IF i > Len(g[node].backward_edges) THEN g
    ELSE LET e == g[node].backward_edges[i]
             c == grad_fn(g, node, e)
         IN  apply_edges([g EXCEPT ![e.input].grad = c], node, i + 1)

\* the inner loop leaving after its first edge.
apply_edges_first(g, node, i) ==
    IF i > Len(g[node].backward_edges) THEN g
    ELSE LET e == g[node].backward_edges[i]
             c == grad_fn(g, node, e)
         IN  [g EXCEPT ![e.input].grad = dadd(@, c)]

\* the inner loop of backward for `node`, from edge i:
\* edge.input->grad += edge.grad_fn()
apply_edges(g, node, i) ==
    IF i > Len(g[node].backward_edges) THEN g
    ELSE LET e == g[node].backward_edges[i]
             c == grad_fn(g, node, e)
         IN  apply_edges([g EXCEPT ![e.input].grad = dadd(@, c)], node, i + 1)

\* the seed written after every grad has been cleared.
seed_reset(g, r) ==
    [n \in DOMAIN g |-> [g[n] EXCEPT !.grad = IF n = r THEN D(1) ELSE 0]]
\* the seed added to the grad the root has.
seed_add(g, r) == [g EXCEPT ![r].grad = dadd(@, D(1))]
\* the seed written to val as well.
seed_val(g, r) == [g EXCEPT ![r].grad = D(1), ![r].val = D(1)]
\* this->grad = 1.0
seed(g, r) == [g EXCEPT ![r].grad = D(1)]

\* the loop starting one node past rbegin and taking the root last.
loop_node_rotated(o, k) == o[((k + Len(o) - 2) % Len(o)) + 1]
\* the loop running order.begin() .. order.end() instead.
loop_node_forward(o, k) == o[Len(o) + 1 - k]
\* `Var* node = *it` for the reverse iterator it, k = it.base() - begin():
\* k runs from Len(o) (rbegin) down to 1; 0 is rend.
loop_node(o, k) == o[k]

\* the loop `for (auto it = order.rbegin(); it != order.rend(); ++it)` from
\* position k down to rend; st = [g, trace], trace being the ghost record of
\* each node visited and the grad it had when its edges were applied.
RECURSIVE backward_loop(_, _, _)
backward_loop(st, o, k) ==
    IF k = 0 THEN st
    ELSE LET node == loop_node(o, k)
         IN  backward_loop(
                [g     |-> apply_edges(st.g, node, 1),
                 trace |-> Append(st.trace,
                                  [node |-> node, grad |-> st.g[node].grad])],
                o, k - 1)

\* Var::backward(): topo_sort, the seed, the loop.  Returns [g, trace].
backward(g, r) ==
    LET o == TopoOrder(g, r)
    IN  backward_loop([g |-> seed(g, r), trace |-> <<>>], o, Len(o))

\* ------------------------------------------------------------- zero_grad
RECURSIVE zero_grad_helper(_, _, _)
RECURSIVE zero_edges(_, _, _, _)

\* zero_grad_helper that does not descend into the edges.
zero_grad_helper_shallow(g, n, visited) ==
    IF n \in visited THEN [g |-> g, visited |-> visited]
    ELSE [g |-> [g EXCEPT ![n].grad = 0], visited |-> visited \cup {n}]

\* zero_grad_helper that also empties the edge list of the node it leaves.
zero_grad_helper_clear(g, n, visited) ==
    IF n \in visited THEN [g |-> g, visited |-> visited]
    ELSE LET s == zero_edges([g EXCEPT ![n].grad = 0], n, 1, visited \cup {n})
         IN  [s EXCEPT !.g[n].backward_edges = <<>>]

\* Var::zero_grad_helper(visited) on node n; returns [g, visited].
zero_grad_helper(g, n, visited) ==
    IF n \in visited THEN [g |-> g, visited |-> visited]
    ELSE zero_edges([g EXCEPT ![n].grad = 0], n, 1, visited \cup {n})

\* the edge loop of zero_grad_helper following only the first edge.
zero_edges_first(g, n, i, visited) ==
    IF i > Len(g[n].backward_edges) THEN [g |-> g, visited |-> visited]
    ELSE zero_grad_helper(g, g[n].backward_edges[i].input, visited)

\* the `for (auto& edge : backward_edges)` loop of zero_grad_helper.
zero_edges(g, n, i, visited) ==
    IF i > Len(g[n].backward_edges) THEN [g |-> g, visited |-> visited]
    ELSE LET s == zero_grad_helper(g, g[n].backward_edges[i].input, visited)
         IN  zero_edges(s.g, n, i + 1, s.visited)

\* zero_grad clearing every Var on the heap.
zero_grad_all(g, r) == [n \in DOMAIN g |-> [g[n] EXCEPT !.grad = 0]]
\* Var::zero_grad()
zero_grad(g, r) == zero_grad_helper(g, r, {}).g

\* ------------------------------------------------------- graph vocabulary
\* The operands node m's edges point to.
Targets(g, m) ==
    {g[m].backward_edges[i].input : i \in 1..Len(g[m].backward_edges)}

RECURSIVE Closure(_, _)
Closure(g, S) ==
    LET T == S \cup UNION {Targets(g, m) : m \in S}
    IN  IF T = S THEN S ELSE Closure(g, T)

\* Nodes reachable from r over "edge -> input" links, r included.
Reach(g, r) == Closure(g, {r})

\* ----------------------------------------------------------------- state
NoCall == [op |-> "none", root |-> NULL, zero |-> FALSE]
NoWalk == [run |-> FALSE, n |-> 0, kind |-> "none", root |-> NULL,
           zero |-> FALSE, cyc |-> FALSE,
           stack |-> <<>>, visited |-> {}, order |-> <<>>, entered |-> <<>>]
NoRound == [phase |-> "-", snap |-> <<>>, n |-> 0]
NoTensor == [rows |-> 0, cols |-> 0, layout |-> "none", tile_size |-> 0,
             data |-> <<>>, oob |-> FALSE, src |-> <<>>, out |-> <<>>,
             got |-> <<>>]

InitWith(d) ==
    /\ nodes = <<>>
    /\ trace = <<>>
    /\ last = NoCall
    /\ round = NoRound
    /\ passes = 0
    /\ pyvars = <<>>
    /\ freed = {}
    /\ calls = 0
    /\ ub = "none"
    /\ walk = NoWalk
    /\ duals = <<>>
    /\ tensor = NoTensor
    /\ digits = d

\* A run in which no sum or whole product is rounded.
Init == InitWith(Exact)

CanAlloc == Len(nodes) < MaxNodes
AllZero(g, r) == \A n \in Reach(g, r) : g[n].grad = 0
Grads(g, r) == [n \in Reach(g, r) |-> g[n].grad]

\* ------------------------------------------------------- the core's calls
\* `new Var(val)`: a leaf.
Leaf(v) ==
    /\ CanAlloc
    /\ nodes' = new_Var(nodes, v)
    /\ UNCHANGED <<trace, last, round, passes>>
    /\ UNCHANGED <<binding, walk, aside>>

Add(a, b) ==
    /\ CanAlloc
    /\ nodes' = op_add(nodes, a, b)
    /\ UNCHANGED <<trace, last, round, passes>>
    /\ UNCHANGED <<binding, walk, aside>>

Sub(a, b) ==
    /\ CanAlloc
    /\ nodes' = op_sub(nodes, a, b)
    /\ UNCHANGED <<trace, last, round, passes>>
    /\ UNCHANGED <<binding, walk, aside>>

Mul(a, b) ==
    /\ CanAlloc
    /\ nodes' = op_mul(nodes, a, b)
    /\ UNCHANGED <<trace, last, round, passes>>
    /\ UNCHANGED <<binding, walk, aside>>

Neg(a) ==
    /\ CanAlloc
    /\ nodes' = op_neg(nodes, a)
    /\ UNCHANGED <<trace, last, round, passes>>
    /\ UNCHANGED <<binding, walk, aside>>

\* ghost: the round bookkeeping when backward(r) returns with heap g,
\* zero telling whether every grad reachable from r was 0 before the call.
RoundAtReturn(g, r, zero) ==
    IF round.phase = "Z" /\ last.root = r
    THEN [round EXCEPT !.phase = "B", !.n = @ + 1]
    ELSE IF zero
    THEN [phase |-> "B", snap |-> Grads(g, r), n |-> 0]
    ELSE NoRound

\* root.backward()
BackwardCall(r) ==
    /\ passes < MaxPasses
    /\ LET res == backward(nodes, r) IN
         /\ nodes' = res.g
         /\ trace' = res.trace
         /\ round' = RoundAtReturn(res.g, r, AllZero(nodes, r))
    /\ last' = [op |-> "backward", root |-> r, zero |-> AllZero(nodes, r)]
    /\ passes' = passes + 1

Backward(r) == BackwardCall(r) /\ UNCHANGED <<binding, walk, aside>>

\* root.zero_grad()
ZeroGradCall(r) ==
    /\ nodes' = zero_grad(nodes, r)
    /\ trace' = <<>>
    /\ last' = [op |-> "zero_grad", root |-> r, zero |-> AllZero(nodes, r)]
    /\ round' = IF round.phase = "B" /\ last.root = r
                THEN [round EXCEPT !.phase = "Z"] ELSE NoRound
    /\ UNCHANGED passes

ZeroGrad(r) == ZeroGradCall(r) /\ UNCHANGED <<binding, walk, aside>>

\* The core used on its own (spec section 6): nothing is ever deleted.
Next ==
    \/ \E v \in LeafVals : Leaf(D(v))
    \/ \E a, b \in Ids : Add(a, b)
    \/ \E a, b \in Ids : Sub(a, b)
    \/ \E a, b \in Ids : Mul(a, b)
    \/ \E a \in Ids : Neg(a)
    \/ \E r \in Ids : Backward(r)
    \/ \E r \in Ids : ZeroGrad(r)

Spec == Init /\ [][Next]_vars

\* ------------------------------------------------ all ten builders
\* The heap has room where all ten builders are used.
CanAllocMath == Len(nodes) < MaxMathNodes
CoreFrame == UNCHANGED <<trace, last, round, passes>> /\ UNCHANGED <<binding, walk, aside>>

\* a / b in IEEE arithmetic is an infinity or NaN for b = 0; the model keeps
\* to finite doubles, and to b whose square it can represent.
Div(a, b) ==
    /\ CanAllocMath
    /\ nodes[b].val # 0 /\ dmul(nodes[b].val, nodes[b].val) # 0
    /\ nodes' = op_div(nodes, a, b)
    /\ CoreFrame

Pow(a, n) ==
    /\ CanAllocMath
    /\ nodes' = op_pow(nodes, a, n)
    /\ CoreFrame

Sin(a) ==
    /\ CanAllocMath /\ nodes[a].val \in MathArgs
    /\ nodes' = op_sin(nodes, a)
    /\ CoreFrame

Cos(a) ==
    /\ CanAllocMath /\ nodes[a].val \in MathArgs
    /\ nodes' = op_cos(nodes, a)
    /\ CoreFrame

Exp(a) ==
    /\ CanAllocMath /\ nodes[a].val \in MathArgs
    /\ nodes' = op_exp(nodes, a)
    /\ CoreFrame

Log(a) ==
    /\ CanAllocMath /\ nodes[a].val \in LogArgs
    /\ nodes' = op_log(nodes, a)
    /\ CoreFrame

NextMath ==
    \/ \E v \in MathVals : CanAllocMath /\ Leaf(D(v))
    \/ \E a, b \in Ids : CanAllocMath /\ Add(a, b)
    \/ \E a, b \in Ids : CanAllocMath /\ Sub(a, b)
    \/ \E a, b \in Ids : CanAllocMath /\ Mul(a, b)
    \/ \E a, b \in Ids : Div(a, b)
    \/ \E a \in Ids : CanAllocMath /\ Neg(a)
    \/ \E a \in Ids : \E n \in PowExps : Pow(a, n)
    \/ \E a \in Ids : Sin(a)
    \/ \E a \in Ids : Cos(a)
    \/ \E a \in Ids : Exp(a)
    \/ \E a \in Ids : Log(a)
    \/ \E r \in Ids : Backward(r)
    \/ \E r \in Ids : ZeroGrad(r)

SpecMath == Init /\ [][NextMath]_vars

\* ------------------------------------------- traversals, call by call
Idle == ~walk.run
\* A cycle lies in the graph reachable from r.
Cyclic(r) ==
    \E n \in Reach(nodes, r) : n \in Closure(nodes, Targets(nodes, n))
Top == walk.stack[Len(walk.stack)]
Pop(st) == SubSeq(st, 1, Len(st) - 1)
\* Where the innermost call stands: at its entry, at an edge of its loop,
\* past the loop; or the outermost call has returned.
AtEntry == walk.run /\ walk.stack # <<>> /\ Top.i = 0
AtEdge ==
    /\ walk.run /\ walk.stack # <<>>
    /\ Top.i >= 1 /\ Top.i <= Len(nodes[Top.node].backward_edges)
AtEnd ==
    /\ walk.run /\ walk.stack # <<>>
    /\ Top.i > Len(nodes[Top.node].backward_edges)
AtReturn == walk.run /\ walk.stack = <<>>
WalkFrame == UNCHANGED <<trace, last, round, passes>> /\ UNCHANGED <<binding, aside>>

\* Var::add_edge on Var m.
add_edge(g, m, inp, fn) ==
    [g EXCEPT ![m].backward_edges = Append(@, BackwardEdge(inp, fn, NULL))]

\* add_edge called on an existing Var by code other than the builders, with
\* a lambda like op_add's: the one way an edge to a Var that is not older,
\* and so a cycle, comes about.
AddEdge(m, n) ==
    /\ Idle
    /\ Len(nodes[m].backward_edges) < MaxEdges
    /\ nodes' = add_edge(nodes, m, n, "one")
    /\ CoreFrame

\* r.backward() has called topo_sort(order, visited) on r, or
\* r.zero_grad() has called zero_grad_helper(visited) on r.
WalkCall(kind, r) ==
    /\ Idle
    /\ walk.n < MaxWalks
    /\ kind = "topo" => passes < MaxPasses
    /\ walk' = [run |-> TRUE, n |-> walk.n + 1, kind |-> kind, root |-> r,
                zero |-> AllZero(nodes, r), cyc |-> Cyclic(r),
                stack |-> <<[node |-> r, i |-> 0]>>, visited |-> {},
                order |-> <<>>, entered |-> <<>>]
    /\ UNCHANGED nodes /\ WalkFrame

BackwardBegin(r) == WalkCall("topo", r)
ZeroGradBegin(r) == WalkCall("zero", r)

\* the entry of either function without `if (visited.count(this)) return`.
WalkEnter_novisit ==
    /\ AtEntry
    /\ walk' = [walk EXCEPT !.visited = @ \cup {Top.node},
                            !.entered = Append(@, Top.node),
                            !.stack[Len(walk.stack)].i = 1]
    /\ nodes' = IF walk.kind = "zero"
                THEN [nodes EXCEPT ![Top.node].grad = 0] ELSE nodes
    /\ WalkFrame

\* `if (visited.count(this)) return; visited.insert(this);` and, in
\* zero_grad_helper, `grad = 0.0`.
WalkEnter ==
    /\ AtEntry
    /\ IF Top.node \in walk.visited
       THEN /\ walk' = [walk EXCEPT !.stack = Pop(@)]
            /\ UNCHANGED nodes
       ELSE /\ walk' = [walk EXCEPT !.visited = @ \cup {Top.node},
                                    !.entered = Append(@, Top.node),
                                    !.stack[Len(walk.stack)].i = 1]
            /\ nodes' = IF walk.kind = "zero"
                        THEN [nodes EXCEPT ![Top.node].grad = 0] ELSE nodes
    /\ WalkFrame

\* the loop calling into the same edge again: the iterator is not advanced.
WalkDescend_stuck ==
    /\ AtEdge
    /\ Len(walk.stack) < MaxDepth
    /\ walk' = [walk EXCEPT !.stack =
                   Append(@, [node |-> nodes[Top.node].backward_edges[Top.i].input,
                              i |-> 0])]
    /\ UNCHANGED nodes /\ WalkFrame
\* `for (auto& edge : backward_edges)`: the recursive call on the next
\* edge's input.  The machine's stack holds MaxDepth frames.
WalkDescend ==
    /\ AtEdge
    /\ Len(walk.stack) < MaxDepth
    /\ walk' = [walk EXCEPT !.stack =
                   Append([@ EXCEPT ![Len(@)].i = Top.i + 1],
                          [node |-> nodes[Top.node].backward_edges[Top.i].input,
                           i |-> 0])]
    /\ UNCHANGED nodes /\ WalkFrame

\* the loop is over: `order.push_back(this)` in topo_sort, and the return.
WalkLeave ==
    /\ AtEnd
    /\ walk' = [walk EXCEPT !.stack = Pop(@),
                            !.order = IF walk.kind = "topo"
                                      THEN Append(@, Top.node) ELSE @]
    /\ UNCHANGED nodes /\ WalkFrame

\* the outermost call has returned: backward seeds the root and runs its
\* loop over the order; zero_grad returns.
WalkReturn ==
    /\ AtReturn
    /\ walk' = [walk EXCEPT !.run = FALSE]
    /\ IF walk.kind = "topo"
       THEN LET res == backward_loop([g |-> seed(nodes, walk.root),
                                      trace |-> <<>>],
                                     walk.order, Len(walk.order))
            IN  /\ nodes' = res.g
                /\ trace' = res.trace
                /\ round' = RoundAtReturn(res.g, walk.root, walk.zero)
                /\ last' = [op |-> "backward", root |-> walk.root,
                            zero |-> walk.zero]
                /\ passes' = passes + 1
       ELSE /\ UNCHANGED nodes
            /\ trace' = <<>>
            /\ last' = [op |-> "zero_grad", root |-> walk.root,
                        zero |-> walk.zero]
            /\ round' = IF round.phase = "B" /\ last.root = walk.root
                        THEN [round EXCEPT !.phase = "Z"] ELSE NoRound
            /\ UNCHANGED passes
    /\ UNCHANGED <<binding, aside>>

WalkStep == WalkEnter \/ WalkDescend \/ WalkLeave \/ WalkReturn
\* The graph is put together before the first traversal.
Building == walk.n = 0
CanAllocWalk == Building /\ Len(nodes) < MaxWalkNodes

NextWalk ==
    \/ \E v \in WalkVals : CanAllocWalk /\ Leaf(D(v))
    \/ \E a, b \in Ids : CanAllocWalk /\ Add(a, b)
    \/ \E m, n \in Ids : Building /\ AddEdge(m, n)
    \/ \E r \in Ids : BackwardBegin(r)
    \/ \E r \in Ids : ZeroGradBegin(r)
    \/ WalkEnter
    \/ WalkDescend
    \/ WalkLeave
    \/ WalkReturn

SpecWalk == Init /\ [][NextWalk]_vars

\* Traversals taken call by call on graphs that only the builders made.
CanAllocBuilt == Building /\ Len(nodes) < MaxBuiltNodes
NextBuilt ==
    \/ \E v \in WalkVals : CanAllocBuilt /\ Leaf(D(v))
    \/ \E a, b \in Ids : CanAllocBuilt /\ Add(a, b)
    \/ \E a, b \in Ids : CanAllocBuilt /\ Mul(a, b)
    \/ \E a \in Ids : CanAllocBuilt /\ Neg(a)
    \/ \E r \in Ids : BackwardBegin(r)
    \/ \E r \in Ids : ZeroGradBegin(r)
    \/ WalkEnter
    \/ WalkDescend
    \/ WalkLeave
    \/ WalkReturn

SpecBuilt == Init /\ [][NextBuilt]_vars

\* ---------------------------------------------------- the Python binding
\* What a Python caller can pass as an operand: a PyVar it holds, or a
\* number.
Handles == {h \in DOMAIN pyvars : pyvars[h].alive}
PyVars == {[type |-> "Var", at |-> h] : h \in Handles}
Numbers == {[type |-> "float", at |-> D(v)] : v \in PyNumbers}
PyObjects == PyVars \cup Numbers

\* get_var handing out the newest Var of the heap for a number.
get_var_reuse(g, obj) ==
    IF obj.type = "Var"
    THEN [g |-> g, var |-> pyvars[obj.at].var]
    ELSE [g |-> g, var |-> Len(g)]
\* get_var(obj, out): a PyVar yields its Var, a number a fresh constant Var.
\* Returns [g, var].
get_var(g, obj) ==
    IF obj.type = "Var"
    THEN [g |-> g, var |-> pyvars[obj.at].var]
    ELSE [g |-> new_Var(g, obj.at), var |-> Len(g) + 1]

\* make_pyvar wrapping the oldest Var of the heap instead of v.
make_pyvar_oldest(pv, v) ==
    Append(pv, [var |-> IF v = NULL THEN NULL ELSE 1, alive |-> TRUE])
\* make_pyvar(v): a new PyVar owning v.
make_pyvar(pv, v) == Append(pv, [var |-> v, alive |-> TRUE])

\* The freed Vars a traversal from r runs into: it follows the edges of
\* Vars that are not freed.
RECURSIVE LiveClosure(_, _)
LiveClosure(g, S) ==
    LET T == S \cup UNION {Targets(g, m) : m \in S \ freed}
    IN  IF T = S THEN S ELSE LiveClosure(g, T)
Dangling(g, r) == IF r = NULL THEN {} ELSE LiveClosure(g, {r}) \cap freed

\* The heaps a call on r that has used freed memory can leave: any grads on
\* the Vars its traversal reaches.
GarbageGrads == {0, D(1)}
Havoc(g, r) ==
    {[n \in DOMAIN g |->
        IF n \in DOMAIN f THEN [g[n] EXCEPT !.grad = f[n]] ELSE g[n]] :
        f \in [LiveClosure(g, {r}) -> GarbageGrads]}

\* Nothing is modelled of a process that has executed undefined behaviour:
\* a run ends with the call that used freed memory.
Running == ub = "none"
PyFrame == UNCHANGED <<trace, last, round, passes, walk>> /\ UNCHANGED aside

\* The PyVars held whose var is still nullptr.
Raw == {h \in Handles : pyvars[h].var = NULL}
\* A PyVar operand whose var is nullptr.
IsRaw(obj) == obj.type = "Var" /\ pyvars[obj.at].var = NULL

\* Var_new (tp_new; ad.Var.__new__(ad.Var) calls it alone): a PyVar with
\* var = nullptr.
Var_new ==
    /\ Running
    /\ Cardinality(Raw) < MaxRaw
    /\ pyvars' = make_pyvar(pyvars, NULL)
    /\ UNCHANGED <<nodes, freed, calls, ub>> /\ PyFrame

\* Var_init (tp_init) on the PyVar h that Var_new returned:
\* self->var = new Var(val).
Var_init(h, v) ==
    /\ Running /\ CanAlloc
    /\ h \in Raw
    /\ nodes' = new_Var(nodes, v)
    /\ pyvars' = [pyvars EXCEPT ![h].var = Len(nodes')]
    /\ UNCHANGED <<freed, calls, ub>> /\ PyFrame

\* ad.Var(v), the call of the type: Var_new, then Var_init on its result.
PyVar_Call(v) ==
    /\ Running /\ CanAlloc
    /\ nodes' = new_Var(nodes, v)
    /\ pyvars' = LET pv == make_pyvar(pyvars, NULL)
                 IN  [pv EXCEPT ![Len(pv)].var = Len(nodes')]
    /\ UNCHANGED <<freed, calls, ub>> /\ PyFrame

\* Var_val / Var_grad: PyFloat_FromDouble(self->var->val) and
\* (self->var->grad).  The getter returns the field and changes nothing;
\* with var = nullptr it reads through the null pointer.
PyFloat_FromDouble(h, field) ==
    IF field = "val" THEN nodes[pyvars[h].var].val ELSE nodes[pyvars[h].var].grad
Getter(h, field) ==
    /\ Running
    /\ IF pyvars[h].var = NULL
       THEN /\ ub' = "nullread"
            /\ UNCHANGED <<nodes, pyvars, freed, calls>> /\ PyFrame
       ELSE /\ PyFloat_FromDouble(h, field) \in Int
            /\ UNCHANGED vars
Var_val(h) == Getter(h, "val")
Var_grad(h) == Getter(h, "grad")

\* Var_backward, Var_zero_grad or a number method given a PyVar whose var is
\* nullptr: self->var->backward(), a->val in the builder.
NullCall(h) ==
    /\ Running
    /\ pyvars[h].var = NULL
    /\ ub' = "nullcall"
    /\ UNCHANGED <<nodes, pyvars, freed, calls>> /\ PyFrame

\* The number methods are reached only with a PyVar among the operands:
\* Python dispatches an expression of numbers alone to float.
\* What Var_add, Var_sub and Var_mul do with the heap g3 their op_ call
\* returns: make_pyvar on its result.
PyBinary(a, b, g3) ==
    /\ Running
    /\ a \in PyVars \/ b \in PyVars
    /\ ~IsRaw(a) /\ ~IsRaw(b)
    /\ Len(g3) <= MaxNodes
    /\ nodes' = g3
    /\ pyvars' = make_pyvar(pyvars, Len(g3))
    /\ UNCHANGED <<freed, calls, ub>> /\ PyFrame

Var_add(a, b) ==
    /\ ~IsRaw(a) /\ ~IsRaw(b)
    /\ LET va == get_var(nodes, a)
           vb == get_var(va.g, b)
       IN  PyBinary(a, b, op_add(vb.g, va.var, vb.var))

Var_sub(a, b) ==
    /\ ~IsRaw(a) /\ ~IsRaw(b)
    /\ LET va == get_var(nodes, a)
           vb == get_var(va.g, b)
       IN  PyBinary(a, b, op_sub(vb.g, va.var, vb.var))

Var_mul(a, b) ==
    /\ ~IsRaw(a) /\ ~IsRaw(b)
    /\ LET va == get_var(nodes, a)
           vb == get_var(va.g, b)
       IN  PyBinary(a, b, op_mul(vb.g, va.var, vb.var))

Var_neg(a) ==
    /\ Running
    /\ a \in PyVars /\ ~IsRaw(a)
    /\ LET va == get_var(nodes, a)
           g2 == op_neg(va.g, va.var)
       IN  /\ Len(g2) <= MaxNodes
           /\ nodes' = g2
           /\ pyvars' = make_pyvar(pyvars, Len(g2))
    /\ UNCHANGED <<freed, calls, ub>> /\ PyFrame

\* Var_dealloc: the caller drops its last reference to PyVar h (a temporary
\* is dropped when its statement ends): `delete self->var`, which does
\* nothing for nullptr and is undefined for a Var deleted before.
Var_dealloc(h) ==
    /\ Running
    /\ Cardinality(DOMAIN pyvars \ Handles) < MaxReleases
    /\ pyvars' = [pyvars EXCEPT ![h].alive = FALSE]
    /\ IF pyvars[h].var \in freed
       THEN ub' = "doublefree" /\ UNCHANGED freed
       ELSE freed' = freed \cup ({pyvars[h].var} \ {NULL}) /\ UNCHANGED ub
    /\ UNCHANGED <<nodes, calls>> /\ PyFrame

\* Var_backward on a graph holding no freed Var.
Var_backward(h) ==
    /\ Running
    /\ calls < MaxPyCalls
    /\ pyvars[h].var # NULL
    /\ Dangling(nodes, pyvars[h].var) = {}
    /\ BackwardCall(pyvars[h].var)
    /\ calls' = calls + 1
    /\ UNCHANGED <<pyvars, freed, ub, walk>> /\ UNCHANGED aside

\* Var_zero_grad on a graph holding no freed Var.
Var_zero_grad(h) ==
    /\ Running
    /\ calls < MaxPyCalls
    /\ pyvars[h].var # NULL
    /\ Dangling(nodes, pyvars[h].var) = {}
    /\ ZeroGradCall(pyvars[h].var)
    /\ calls' = calls + 1
    /\ UNCHANGED <<pyvars, freed, ub, walk>> /\ UNCHANGED aside

\* Var_backward or Var_zero_grad on a graph holding a freed Var: topo_sort /
\* zero_grad_helper and the lambdas read and write freed memory.  The call
\* kills the process or returns having written anything.
UseAfterFree(h) ==
    /\ Running
    /\ calls < MaxPyCalls
    /\ calls' = calls + 1
    /\ Dangling(nodes, pyvars[h].var) # {}
    /\ \/ /\ ub' = "crashed"
          /\ UNCHANGED nodes
       \/ /\ ub' = "corrupt"
          /\ nodes' \in Havoc(nodes, pyvars[h].var)
    /\ trace' = <<>>
    /\ last' = NoCall
    /\ round' = NoRound
    /\ UNCHANGED <<passes, pyvars, freed, walk>> /\ UNCHANGED aside

NextPy ==
    \/ \E v \in PyLeafVals : PyVar_Call(D(v))
    \/ \E a, b \in PyObjects : Var_add(a, b)
    \/ \E a, b \in PyObjects : Var_sub(a, b)
    \/ \E a, b \in PyObjects : Var_mul(a, b)
    \/ \E a \in PyObjects : Var_neg(a)
    \/ \E h \in Handles : Var_dealloc(h)
    \/ \E h \in Handles : Var_backward(h)
    \/ \E h \in Handles : Var_zero_grad(h)
    \/ \E h \in Handles : UseAfterFree(h)
    \/ \E h \in Handles : Var_val(h)
    \/ \E h \in Handles : Var_grad(h)

SpecPy == Init /\ [][NextPy]_vars

\* The binding with Var_new and Var_init called apart, as
\* ad.Var.__new__(ad.Var) and v.__init__(2.0) call them, on a smaller heap.
FitsRaw == Len(nodes') <= MaxRawNodes
NextRaw ==
    \/ Var_new
    \/ \E h \in Handles : \E v \in PyLeafVals : Var_init(h, D(v)) /\ FitsRaw
    \/ \E a, b \in PyObjects : Var_add(a, b) /\ FitsRaw
    \/ \E a, b \in PyObjects : Var_sub(a, b) /\ FitsRaw
    \/ \E a, b \in PyObjects : Var_mul(a, b) /\ FitsRaw
    \/ \E a \in PyObjects : Var_neg(a) /\ FitsRaw
    \/ \E h \in Handles : Var_dealloc(h)
    \/ \E h \in Handles : Var_backward(h)
    \/ \E h \in Handles : Var_zero_grad(h)
    \/ \E h \in Handles : UseAfterFree(h)
    \/ \E h \in Handles : Var_val(h)
    \/ \E h \in Handles : Var_grad(h)
    \/ \E h \in Handles : NullCall(h)

SpecRaw == Init /\ [][NextRaw]_vars

\* ------------------------------------------------- layout.cpp: LayoutTensor
\* parse_layout(name): an unknown name is row-major.
parse_layout(name) ==
    IF name = "row_major" THEN "RowMajor"
    ELSE IF name = "col_major" THEN "ColMajor"
    ELSE IF name = "tiled" THEN "Tiled"
    ELSE "RowMajor"

\* index with tiles_per_row rounded down.
index_floor(t, i, j) ==
    CASE t.layout = "RowMajor" -> i * t.cols + j
      [] t.layout = "ColMajor" -> j * t.rows + i
      [] t.layout = "Tiled" ->
            LET tile_row == i \div t.tile_size
                tile_col == j \div t.tile_size
                tiles_per_row == t.cols \div t.tile_size
                tile_idx == tile_row * tiles_per_row + tile_col
                local_i == i % t.tile_size
                local_j == j % t.tile_size
                local_offset == local_i * t.tile_size + local_j
            IN  tile_idx * (t.tile_size * t.tile_size) + local_offset
\* LayoutTensor::index(i, j): logical (i, j) to physical index, from 0.
index(t, i, j) ==
    CASE t.layout = "RowMajor" -> i * t.cols + j
      [] t.layout = "ColMajor" -> j * t.rows + i
      [] t.layout = "Tiled" ->
            LET tile_row == i \div t.tile_size
                tile_col == j \div t.tile_size
                tiles_per_row == (t.cols + t.tile_size - 1) \div t.tile_size
                tile_idx == tile_row * tiles_per_row + tile_col
                local_i == i % t.tile_size
                local_j == j % t.tile_size
                local_offset == local_i * t.tile_size + local_j
            IN  tile_idx * (t.tile_size * t.tile_size) + local_offset

\* data[index(i, j)] lies in the vector; outside it the access is undefined.
InData(t, i, j) == index(t, i, j) < Len(t.data)

\* LayoutTensor::get(i, j); read outside the vector it is any double, and
\* the tensor is marked (oob).
get(t, i, j) == t.data[index(t, i, j) + 1]

\* LayoutTensor::set(i, j, val); a write outside the vector marks the tensor
\* (oob): what it overwrites is not the tensor's.
set(t, i, j, val) ==
    IF InData(t, i, j)
    THEN [t EXCEPT !.data[index(t, i, j) + 1] = val]
    ELSE [t EXCEPT !.oob = TRUE]

\* data.resize(n, 0.0) on the empty vector.
resize(n) == [k \in 1..n |-> 0]

\* The loops `for i < rows, for j < cols: t->set(i, j, d[i][j])` of
\* layout_from_list, from (i, j) on.
RECURSIVE fill(_, _, _, _)
fill(t, d, i, j) ==
    IF i >= t.rows THEN t
    ELSE IF j >= t.cols THEN fill(t, d, i + 1, 0)
    ELSE fill(set(t, i, j, d[i + 1][j + 1]), d, i, j + 1)

\* The size layout_from_list and layout_zeros give the vector.
data_size(rows, cols, layout, tile_size) ==
    IF layout = "Tiled"
    THEN LET padded_rows == ((rows + tile_size - 1) \div tile_size) * tile_size
             padded_cols == ((cols + tile_size - 1) \div tile_size) * tile_size
         IN  padded_rows * padded_cols
    ELSE rows * cols

\* layout.from_list(d, layout = name, tile_size = ts) for a list d of
\* Len(d) >= 1 rows of Len(d[1]) floats each; src (ghost) keeps d, out
\* (ghost) the last result of tolist(), got (ghost) that of get().
layout_from_list(d, name, ts) ==
    LET rows == Len(d)
        cols == Len(d[1])
        t == [rows |-> rows, cols |-> cols, layout |-> parse_layout(name),
              tile_size |-> ts,
              data |-> resize(data_size(rows, cols, parse_layout(name), ts)),
              oob |-> FALSE, src |-> d, out |-> <<>>, got |-> <<>>]
    IN  fill(t, d, 0, 0)

\* LayoutTensor.tolist(): the list of rows of get(i, j).
LayoutTensor_tolist(t) ==
    [i \in 1..t.rows |-> [j \in 1..t.cols |-> get(t, i - 1, j - 1)]]

LayoutFrame ==
    /\ UNCHANGED <<nodes, trace, last, round, passes>>
    /\ UNCHANGED <<binding, walk, duals, digits>>

\* t = layout.from_list(d, name, ts), for the one tensor a run follows.
FromList(d, name, ts) ==
    /\ tensor.layout = "none"
    /\ tensor' = layout_from_list(d, name, ts)
    /\ LayoutFrame

\* t.tolist()
ToList ==
    /\ tensor.layout # "none"
    /\ IF \A i \in 0..(tensor.rows - 1), j \in 0..(tensor.cols - 1) :
             InData(tensor, i, j)
       THEN tensor' = [tensor EXCEPT !.out = LayoutTensor_tolist(tensor)]
       ELSE tensor' = [tensor EXCEPT !.oob = TRUE]
    /\ LayoutFrame

\* t.get(i, j) at a logical position of the tensor.
Get(i, j) ==
    /\ tensor.layout # "none"
    /\ i < tensor.rows /\ j < tensor.cols
    /\ IF InData(tensor, i, j)
       THEN tensor' = [tensor EXCEPT !.got = <<i, j, get(tensor, i, j)>>]
       ELSE tensor' = [tensor EXCEPT !.oob = TRUE]
    /\ LayoutFrame

\* The lists a caller passes: rows x cols floats, every row as long as the
\* first.
Lists ==
    UNION {[1..r -> [1..c -> {D(v) : v \in CellVals}]] :
             r \in 1..MaxRows, c \in 0..MaxCols}
LayoutNames == {"row_major", "col_major", "tiled", "blocked"}

NextLayout ==
    \/ /\ tensor.layout = "none"
       /\ \E d \in Lists, name \in LayoutNames, ts \in 1..MaxTile :
             FromList(d, name, ts)
    \/ ToList
    \/ \E i \in 0..(MaxRows - 1), j \in 0..(MaxCols - 1) : Get(i, j)

SpecLayout == Init /\ [][NextLayout]_vars

\* ------------------------------------ forward mode: Dual (part_000)
\* Dual(double v, double g)
Dual(v, g) == [val |-> v, grad |-> g]

\* Dual::operator*, with the product rule's two terms exchanged in sign.
Dual_mul_minus(a, b) ==
    Dual(dmul(a.val, b.val),
         dsub(dmul(a.grad, b.val), dmul(a.val, b.grad)))
\* Dual::operator+, operator-, operator* and unary operator-, as Dual_add,
\* Dual_sub, Dual_mul and Dual_neg call them.
Dual_add(a, b) == Dual(dadd(a.val, b.val), dadd(a.grad, b.grad))
Dual_sub(a, b) == Dual(dsub(a.val, b.val), dsub(a.grad, b.grad))
Dual_mul(a, b) ==
    Dual(dmul(a.val, b.val),
         dadd(dmul(a.grad, b.val), dmul(a.val, b.grad)))
Dual_neg(a) == Dual(-a.val, -a.grad)

\* One expression evaluated in both modes: Var k of the heap and Dual k are
\* the results of the same operation on the same operands.  The model keeps
\* the values small enough for every grad to stay a finite number it can
\* hold.
InRange(v) == Abs(v) <= D(2 ^ (MantBits + 1))
CanAllocModes == Len(nodes) < MaxModeNodes /\ passes = 0
ModesFrame ==
    /\ UNCHANGED <<trace, last, round, passes>>
    /\ UNCHANGED <<binding, walk, tensor, digits>>

\* x = ad.Var(v) and x = ad.var(v): the variable, seeded with derivative 1
\* in forward mode.
BothVar(v) ==
    /\ nodes = <<>>
    /\ nodes' = new_Var(nodes, v)
    /\ duals' = Append(duals, Dual(v, D(1)))
    /\ ModesFrame

\* The number c as an operand: get_var's new Var(c), get_dual's Dual(c, 0).
BothConst(c) ==
    /\ nodes # <<>> /\ CanAllocModes
    /\ nodes' = new_Var(nodes, c)
    /\ duals' = Append(duals, Dual(c, 0))
    /\ ModesFrame

BothAdd(a, b) ==
    /\ CanAllocModes
    /\ InRange(dadd(nodes[a].val, nodes[b].val))
    /\ nodes' = op_add(nodes, a, b)
    /\ duals' = Append(duals, Dual_add(duals[a], duals[b]))
    /\ ModesFrame

BothSub(a, b) ==
    /\ CanAllocModes
    /\ InRange(dsub(nodes[a].val, nodes[b].val))
    /\ nodes' = op_sub(nodes, a, b)
    /\ duals' = Append(duals, Dual_sub(duals[a], duals[b]))
    /\ ModesFrame

BothMul(a, b) ==
    /\ CanAllocModes
    /\ InRange(dmul(nodes[a].val, nodes[b].val))
    /\ nodes' = op_mul(nodes, a, b)
    /\ duals' = Append(duals, Dual_mul(duals[a], duals[b]))
    /\ ModesFrame

BothNeg(a) ==
    /\ CanAllocModes
    /\ nodes' = op_neg(nodes, a)
    /\ duals' = Append(duals, Dual_neg(duals[a]))
    /\ ModesFrame

\* f.backward() on the expression just built: a Var refers to older Vars
\* only, so a backward from an older node is the backward of a shorter run.
IsResult(r) == r = Len(nodes)

NextModes ==
    \/ \E v \in XVals : BothVar(D(v))
    \/ \E c \in ConstVals : BothConst(D(c))
    \/ \E a, b \in Ids : BothAdd(a, b)
    \/ \E a, b \in Ids : BothSub(a, b)
    \/ \E a, b \in Ids : BothMul(a, b)
    \/ \E a \in Ids : BothNeg(a)
    \/ \E r \in Ids : IsResult(r) /\ passes < MaxModePasses /\ Backward(r)

\* A run that shows the roundings of a double.
InitModes == InitWith(MantBits)
SpecModes == InitModes /\ [][NextModes]_vars

\* ------------------------------------------------- the claims' vocabulary
Edges(m) == nodes[m].backward_edges
Operand(m, i) == Edges(m)[i].input
IsLeaf(n) == nodes[n].op = "leaf" /\ Len(Edges(n)) = 0

\* The nodes of Reach(nodes, r) that have an edge targeting n.
Consumers(r, n) == {m \in Reach(nodes, r) : n \in Targets(nodes, m)}

\* The analytic partial derivative of the operation that built node m with
\* respect to its i-th operand (spec 4.1's table), from the operand values.
LocalPartial(g, m, i) ==
    CASE g[m].op = "add" -> D(1)
      [] g[m].op = "sub" -> IF i = 1 THEN D(1) ELSE D(-1)
      [] g[m].op = "mul" -> g[g[m].backward_edges[3 - i].input].val
      [] g[m].op = "neg" -> D(-1)

\* The sum, over every edge path from `from` to n, of the product of the
\* local partials along the path (the empty path from n to n counts 1).
RECURSIVE PathSum(_, _, _)
RECURSIVE PathSumEdges(_, _, _, _)
PathSum(g, from, n) ==
    IF from = n THEN D(1) ELSE PathSumEdges(g, from, n, 1)
PathSumEdges(g, from, n, i) ==
    IF i > Len(g[from].backward_edges) THEN 0
    ELSE dmul(LocalPartial(g, from, i),
              PathSum(g, g[from].backward_edges[i].input, n))
         + PathSumEdges(g, from, n, i + 1)

AfterBackward == last.op = "backward"
AfterBackwardFromZero == last.op = "backward" /\ last.zero
AfterZeroGrad == last.op = "zero_grad"

\* Node n is reached from r along two different edges.
Shared(r, n) ==
    \/ Cardinality(Consumers(r, n)) >= 2
    \/ \E m \in Consumers(r, n) :
          Len(Edges(m)) = 2 /\ Operand(m, 1) = n /\ Operand(m, 2) = n

C2_ConsumersProcessedFirst ==
    AfterBackward =>
        \A i \in DOMAIN trace :
            /\ \A m \in Consumers(last.root, trace[i].node) :
                  \E j \in 1..(i - 1) : trace[j].node = m
            /\ trace[i].grad = nodes[trace[i].node].grad

\* a backward has applied the edges of a node that two different nodes
\* consume, after both
C2_Witness ==
    /\ AfterBackward
    /\ \E i \in DOMAIN trace :
          /\ Cardinality(Consumers(last.root, trace[i].node)) >= 2
          /\ Len(Edges(trace[i].node)) >= 1
          /\ trace[i].grad # 0

\* ------------------------------------------------------------------- C3
\* C3: no Var is deleted while edges lead to it from a PyVar the caller
\* still holds: every edge reachable from a held PyVar targets a Var that
\* has not been freed, and no backward or zero_grad call has used a freed
\* Var.
C3_RetainedGraphIsLive ==
    /\ \A h \in Handles : Dangling(nodes, pyvars[h].var) = {}
    /\ ub \notin {"crashed", "corrupt"}

\* ------------------------------------------------------------------- C4
\* C4: the sequence topo_sort produces from any root places each operand
\* strictly before every reachable node that has an edge to it, and the
\* root last.
C4_OperandsBeforeConsumers ==
    \A r \in Ids :
        LET o == TopoOrder(nodes, r) IN
        /\ Len(o) >= 1 /\ o[Len(o)] = r
        /\ \A m \in Reach(nodes, r) : \A n \in Targets(nodes, m) :
              /\ \E i \in DOMAIN o : o[i] = n
              /\ \E j \in DOMAIN o : o[j] = m
              /\ \A i, j \in DOMAIN o : (o[i] = n /\ o[j] = m) => i < j

\* backward has sorted a graph of 4 nodes holding a shared operand
C4_Witness ==
    /\ AfterBackward
    /\ Len(trace) >= 4
    /\ \E n \in Reach(nodes, last.root) :
          Cardinality(Consumers(last.root, n)) >= 2

\* ------------------------------------------------------------------- C5
\* C5: the sequence topo_sort produces from any root holds exactly the nodes
\* reachable from the root, each of them once.
C5_EachReachableNodeOnce ==
    \A r \in Ids :
        LET o == TopoOrder(nodes, r) IN
        /\ {o[i] : i \in DOMAIN o} = Reach(nodes, r)
        /\ \A i, j \in DOMAIN o : o[i] = o[j] => i = j

\* backward has sorted a graph in which one node is both operands of an
\* operation and a node outside the root's graph exists
C5_Witness ==
    /\ AfterBackward
    /\ \E m \in Reach(nodes, last.root) :
          Len(Edges(m)) = 2 /\ Operand(m, 1) = Operand(m, 2)
    /\ Reach(nodes, last.root) # Ids
    /\ Len(trace) = Cardinality(Reach(nodes, last.root))

\* ------------------------------------------------------------------- C6
\* C6: after zero_grad(root) every node reachable from root has grad 0,
\* whatever the grads were, and zero_grad(root) applied to that heap again
\* changes nothing.
C6_ZeroGradZeroesReachable ==
    /\ AfterZeroGrad =>
          \A n \in Reach(nodes, last.root) : nodes[n].grad = 0
    /\ \A r \in Ids :
          zero_grad(zero_grad(nodes, r), r) = zero_grad(nodes, r)

\* zero_grad has run after two backward passes on a graph with a shared
\* node whose grads were not all 0
C6_Witness ==
    /\ AfterZeroGrad /\ ~last.zero
    /\ passes >= 2
    /\ Cardinality(Reach(nodes, last.root)) >= 3
    /\ \E n \in Reach(nodes, last.root) : Shared(last.root, n)

\* ------------------------------------------------------------------- C7
\* C7: after backward(f) from zero grads, every further round
\* zero_grad(f); backward(f) leaves each node reachable from f with the
\* grad the first backward(f) left.
C7_RoundReproducesGrads ==
    round.phase = "B" =>
        \A n \in Reach(nodes, last.root) : nodes[n].grad = round.snap[n]

\* a round zero_grad(f); backward(f) has completed after a first
\* backward(f) on a graph with a shared node
C7_Witness ==
    /\ round.phase = "B" /\ round.n >= 1
    /\ \E n \in Reach(nodes, last.root) :
          Shared(last.root, n) /\ nodes[n].grad # 0

\* ------------------------------------------------------------------- C8
\* f = mul(add(x, y), x) for distinct leaves x, y.
IsMulAddX(f, x, y) ==
    /\ nodes[f].op = "mul" /\ Len(Edges(f)) = 2
    /\ Operand(f, 2) = x
    /\ LET a == Operand(f, 1) IN
         /\ nodes[a].op = "add" /\ Len(Edges(a)) = 2
         /\ Operand(a, 1) = x /\ Operand(a, 2) = y
    /\ IsLeaf(x) /\ IsLeaf(y) /\ x # y

IsSquare(y, x) ==
    /\ nodes[y].op = "mul" /\ Len(Edges(y)) = 2
    /\ Operand(y, 1) = x /\ Operand(y, 2) = x
    /\ IsLeaf(x)

\* C9: y = mul(x, x) has value x * x, and after backward(y) from zero grads
\* x.grad = 2x: x is visited once and both edges' contributions are added.
C9_SquareDoubleEdge ==
    \A y, x \in Ids :
        IsSquare(y, x) =>
            /\ nodes[y].val = dmul(nodes[x].val, nodes[x].val)
            /\ (AfterBackwardFromZero /\ last.root = y) =>
                  /\ nodes[x].grad = 2 * nodes[x].val
                  /\ Cardinality({i \in DOMAIN trace : trace[i].node = x}) = 1

\* x = 3: value 9, grad 6
C9_Witness ==
    \E y, x \in Ids :
        /\ IsSquare(y, x)
        /\ AfterBackwardFromZero /\ last.root = y
        /\ nodes[x].val = D(3) /\ nodes[y].val = D(9) /\ nodes[x].grad = D(6)

\* ------------------------------------------------------------------ C10
\* f = mul(x, y) for distinct leaves x, y.
IsProduct(f, x, y) ==
    /\ nodes[f].op = "mul" /\ Len(Edges(f)) = 2
    /\ Operand(f, 1) = x /\ Operand(f, 2) = y
    /\ IsLeaf(x) /\ IsLeaf(y) /\ x # y

\* C10: f = mul(x, y) has value x.value * y.value, and after backward(f)
\* from zero grads x.grad = y.value and y.grad = x.value.
C10_ProductRule ==
    \A f, x, y \in Ids :
        IsProduct(f, x, y) =>
            /\ nodes[f].val = dmul(nodes[x].val, nodes[y].val)
            /\ (AfterBackwardFromZero /\ last.root = f) =>
                  /\ nodes[x].grad = nodes[y].val
                  /\ nodes[y].grad = nodes[x].val

\* x = 2, y = 3: value 6, grads 3 and 2
C10_Witness ==
    \E f, x, y \in Ids :
        /\ IsProduct(f, x, y)
        /\ AfterBackwardFromZero /\ last.root = f
        /\ nodes[x].val = D(2) /\ nodes[y].val = D(3)
        /\ nodes[f].val = D(6) /\ nodes[x].grad = D(3) /\ nodes[y].grad = D(2)

\* ------------------------------------------------------------------ C11
\* f = add(a, b), sub(a, b) for distinct leaves a, b; f = neg(a) for a leaf.
IsBinaryOf(o, f, a, b) ==
    /\ nodes[f].op = o /\ Len(Edges(f)) = 2
    /\ Operand(f, 1) = a /\ Operand(f, 2) = b
    /\ IsLeaf(a) /\ IsLeaf(b) /\ a # b
IsUnaryOf(o, f, a) ==
    /\ nodes[f].op = o /\ Len(Edges(f)) = 1
    /\ Operand(f, 1) = a
    /\ IsLeaf(a)

\* C11: add(a, b), sub(a, b) and neg(a) of distinct leaves have the values
\* a + b, a - b and -a, and after backward of the result from zero grads
\* the leaves hold 1 and 1, 1 and -1, and -1.
C11_SumDifferenceNegation ==
    /\ \A f, a, b \in Ids :
          /\ IsBinaryOf("add", f, a, b) =>
                /\ nodes[f].val = nodes[a].val + nodes[b].val
                /\ (AfterBackwardFromZero /\ last.root = f) =>
                      nodes[a].grad = D(1) /\ nodes[b].grad = D(1)
          /\ IsBinaryOf("sub", f, a, b) =>
                /\ nodes[f].val = nodes[a].val - nodes[b].val
                /\ (AfterBackwardFromZero /\ last.root = f) =>
                      nodes[a].grad = D(1) /\ nodes[b].grad = D(-1)
    /\ \A f, a \in Ids :
          IsUnaryOf("neg", f, a) =>
              /\ nodes[f].val = -nodes[a].val
              /\ (AfterBackwardFromZero /\ last.root = f) =>
                    nodes[a].grad = D(-1)

\* add(a, b) and sub(a, b) stand on the leaves a = 2, b = 3; backward has
\* run on the sum, then zero_grad, then backward on the difference
C11_Witness ==
    \E f, s, a, b \in Ids :
        /\ IsBinaryOf("add", f, a, b) /\ IsBinaryOf("sub", s, a, b)
        /\ AfterBackwardFromZero /\ last.root = s /\ passes = 2
        /\ nodes[a].val = D(2) /\ nodes[b].val = D(3)
        /\ nodes[f].val = D(5) /\ nodes[s].val = D(-1)
        /\ nodes[a].grad = D(1) /\ nodes[b].grad = D(-1)

C13_AccessorsNeverFail == ub # "nullread"

\* ------------------------------------------------------------------ C14
\* The step is a backward(r) or a zero_grad(r) call.
IsPass(r) == Backward(r) \/ ZeroGrad(r)

\* C14: backward(root) and zero_grad(root) leave the set of nodes and every
\* node's value and edge list as they were.
C14_PassesKeepNodesValuesEdges ==
    [][(\E r \in Ids : IsPass(r)) =>
          /\ DOMAIN nodes' = DOMAIN nodes
          /\ \A n \in Ids :
                /\ nodes'[n].val = nodes[n].val
                /\ nodes'[n].backward_edges = nodes[n].backward_edges]_vars

\* a second backward has run on a root with two edges in a graph of 4 nodes,
\* and has changed grads
C14_Witness ==
    /\ AfterBackward /\ passes = 2 /\ Len(nodes) = 4
    /\ Len(Edges(last.root)) = 2
    /\ Cardinality(Reach(nodes, last.root)) >= 3
    /\ \E n \in Reach(nodes, last.root) : nodes[n].grad \notin {0, D(1)}

\* ------------------------------------------------------------------ C15
\* C15: backward(root) and zero_grad(root) leave the grad of every node not
\* reachable from root as it was.
C15_PassesKeepUnreachableGrads ==
    [][\A r \in Ids : IsPass(r) =>
          \A n \in Ids \ Reach(nodes, r) :
              nodes'[n].grad = nodes[n].grad]_vars

\* a pass has run on a root while a node outside its graph, consuming one of
\* its nodes, keeps the grad an earlier backward gave it
C15_Witness ==
    /\ last.op \in {"backward", "zero_grad"} /\ passes >= 1
    /\ \E n \in Ids \ Reach(nodes, last.root) :
          /\ Targets(nodes, n) \cap Reach(nodes, last.root) # {}
          /\ nodes[n].grad = D(1)
    /\ \E m \in Reach(nodes, last.root) : Len(Edges(m)) >= 1

\* ------------------------------------------------------------------ C16
\* The step is a call of one of the ten builders.
IsBuilderCall ==
    /\ CanAllocMath
    /\ \/ \E a, b \in Ids : Add(a, b) \/ Sub(a, b) \/ Mul(a, b) \/ Div(a, b)
       \/ \E a \in Ids : Neg(a) \/ Sin(a) \/ Cos(a) \/ Exp(a) \/ Log(a)
       \/ \E a \in Ids : \E n \in PowExps : Pow(a, n)

\* C16: a builder call leaves every existing node as it was in value, grad
\* and edges, and adds exactly one node, whose grad is 0.
C16_BuildersAddOneNode ==
    [][IsBuilderCall =>
          /\ Len(nodes') = Len(nodes) + 1
          /\ \A n \in Ids : nodes'[n] = nodes[n]
          /\ nodes'[Len(nodes')].grad = 0]_vars

\* a builder other than add, sub, mul, neg has added the third node after a
\* backward pass left grads on its operand
C16_Witness ==
    /\ Len(nodes) = 3
    /\ nodes[3].op \in {"div", "pow", "sin", "cos", "exp", "log"}
    /\ nodes[3].grad = 0
    /\ passes >= 1
    /\ \E a \in Targets(nodes, 3) : nodes[a].grad # 0

\* ------------------------------------------------------------------ C17
\* C17: every edge points from a node to a node created strictly earlier
\* (a lower address on this heap), and no node is reachable from itself
\* through one or more edges.
C17_EdgesPointToOlderNodes ==
    \A m \in Ids :
        /\ \A n \in Targets(nodes, m) : n \in Ids /\ n < m
        /\ m \notin Closure(nodes, Targets(nodes, m))

\* a node built on a built node, with an operation using one node for both
\* operands
C17_Witness ==
    /\ Len(nodes) = 3
    /\ 2 \in Targets(nodes, 3) /\ 1 \in Targets(nodes, 2)
    /\ Len(Edges(2)) = 2 /\ Operand(2, 1) = Operand(2, 2)

\* ------------------------------------------------------------------ C19
\* C19: f = div(a, b) of distinct leaves, b nonzero, has the value a / b, and
\* after backward(f) from zero grads a.grad = 1 / b and b.grad = -a / b^2,
\* as the double operations give them; where the quotient is a double
\* exactly, it is the exact quotient.
C19_QuotientRule ==
    \A f, a, b \in Ids :
        LET A == nodes[a].val
            B == nodes[b].val
        IN
        (IsBinaryOf("div", f, a, b) /\ B # 0) =>
            /\ nodes[f].val = ddiv(A, B)
            /\ (A * Unit) % B = 0 => nodes[f].val * B = A * Unit
            /\ (AfterBackwardFromZero /\ last.root = f) =>
                  /\ nodes[a].grad = ddiv(D(1), B)
                  /\ nodes[b].grad = -ddiv(A, dmul(B, B))
                  /\ (Unit * Unit) % B = 0 =>
                        nodes[a].grad * B = Unit * Unit
                  /\ (A * Unit * Unit) % (B * B) = 0 =>
                        nodes[b].grad * B * B = -A * Unit * Unit

\* a = 4, b = 2: value 2, grads 0.5 and -1.0
C19_Witness ==
    \E f, a, b \in Ids :
        /\ IsBinaryOf("div", f, a, b)
        /\ AfterBackwardFromZero /\ last.root = f
        /\ nodes[a].val = D(4) /\ nodes[b].val = D(2)
        /\ nodes[f].val = D(2)
        /\ 2 * nodes[a].grad = D(1) /\ nodes[b].grad = D(-1)

\* ------------------------------------------------------------------ C20
\* C20: for a leaf a, after backward from zero grads of pow(a, n), sin(a),
\* cos(a), exp(a), log(a) the leaf holds n * a^(n-1), cos(a), -sin(a), the
\* value of the result, and 1 / a; the exponent n gets no node and no edge.
C20_UnaryDerivatives ==
    \A f, a \in Ids :
        LET A == nodes[a].val
            done == AfterBackwardFromZero /\ last.root = f
        IN
        /\ IsUnaryOf("pow", f, a) =>
              LET n == Edges(f)[1].n IN
              /\ n \in PowExps
              /\ nodes[f].val = pow(A, n)
              /\ done => nodes[a].grad = n * pow(A, n - 1)
        /\ IsUnaryOf("sin", f, a) =>
              /\ nodes[f].val = sin(A)
              /\ done => nodes[a].grad = cos(A)
        /\ IsUnaryOf("cos", f, a) =>
              /\ nodes[f].val = cos(A)
              /\ done => nodes[a].grad = -sin(A)
        /\ IsUnaryOf("exp", f, a) =>
              /\ nodes[f].val = exp(A)
              /\ done => nodes[a].grad = nodes[f].val /\ nodes[a].grad = exp(A)
        /\ IsUnaryOf("log", f, a) =>
              /\ nodes[f].val = log(A)
              /\ done =>
                    /\ nodes[a].grad = ddiv(D(1), A)
                    /\ (Unit * Unit) % A = 0 => nodes[a].grad * A = Unit * Unit

\* cos(a) and pow(a, 3) stand on the leaf a = 2; backward has run on the
\* cosine (leaving -sin 2), then zero_grad, then backward on the cube: value
\* 8, grad 12
C20_Witness ==
    \E f, c, a \in Ids :
        /\ IsUnaryOf("pow", f, a) /\ IsUnaryOf("cos", c, a)
        /\ Edges(f)[1].n = 3
        /\ AfterBackwardFromZero /\ last.root = f /\ passes = 2
        /\ nodes[a].val = D(2) /\ nodes[f].val = D(8)
        /\ nodes[a].grad = D(12)
        /\ nodes[c].val = cos(D(2)) /\ nodes[c].val < 0

\* ------------------------------------------------------------------ C18
\* A traversal is in progress on a graph with a cycle.
OnCycle == walk.run /\ walk.cyc

FrameWeight(g, f) ==
    IF f.i = 0 THEN 1
    ELSE 2 * (Len(g[f.node].backward_edges) + 1 - f.i) + 1
RECURSIVE StackWeight(_, _)
StackWeight(g, st) ==
    IF st = <<>> THEN 0
    ELSE FrameWeight(g, st[Len(st)]) + StackWeight(g, Pop(st))
\* A bound on the steps traversal w has left on heap g.
Rank(g, w) ==
    (2 * MaxEdges + 1) * Cardinality(Reach(g, w.root) \ w.visited)
        + StackWeight(g, w.stack)
        + (IF w.run THEN 1 ELSE 0)

Positions == (0..(tensor.rows - 1)) \X (0..(tensor.cols - 1))

\* C21: for each layout (row_major, col_major, tiled with tile_size >= 1)
\* and every shape, index maps every logical position to a physical index
\* inside data and distinct positions to distinct indices, so tolist() of a
\* tensor built by from_list(d) returns d; row-major uses i*cols + j and
\* column-major j*rows + i.
C21_IndexIsInjectiveInBounds ==
    tensor.layout # "none" =>
       /\ ~tensor.oob
       /\ \A p \in Positions :
             /\ index(tensor, p[1], p[2]) \in 0..(Len(tensor.data) - 1)
             /\ get(tensor, p[1], p[2]) = tensor.src[p[1] + 1][p[2] + 1]
             /\ tensor.layout = "RowMajor" =>
                   index(tensor, p[1], p[2]) = p[1] * tensor.cols + p[2]
             /\ tensor.layout = "ColMajor" =>
                   index(tensor, p[1], p[2]) = p[2] * tensor.rows + p[1]
       /\ \A p, q \in Positions :
             p # q => index(tensor, p[1], p[2]) # index(tensor, q[1], q[2])
       /\ tensor.out # <<>> => tensor.out = tensor.src
       /\ tensor.got # <<>> =>
             tensor.got[3] = tensor.src[tensor.got[1] + 1][tensor.got[2] + 1]

\* A 3 x 3 tensor in 2 x 2 tiles, padded to 16 cells in four tiles, whose
\* tolist() has returned the list it was built from.
C21_Witness ==
    /\ tensor.layout = "Tiled" /\ tensor.tile_size = 2
    /\ tensor.rows = 3 /\ tensor.cols = 3
    /\ Len(tensor.data) = 16
    /\ tensor.src = << <<D(1), D(2), D(1)>>, <<D(2), D(2), D(1)>>,
                       <<D(1), D(1), D(2)>> >>
    /\ tensor.data = <<D(1), D(2), D(2), D(2), D(1), 0, D(1), 0,
                       D(1), D(1), 0, 0, D(2), 0, 0, 0>>
    /\ tensor.out = tensor.src

\* ------------------------------------------------------------------ C22
\* The additions the claim describes for the visits tr[k..]: for each edge
\* of the visited node, (the node's grad * the edge's local partial) added
\* to the operand's grad.
RECURSIVE AddContributions(_, _, _, _)
AddContributions(g, m, c, i) ==
    IF i > Len(g[m].backward_edges) THEN g
    ELSE LET n == g[m].backward_edges[i].input
         IN  AddContributions(
                [g EXCEPT ![n].grad = @ + dmul(c, LocalPartial(g, m, i))],
                m, c, i + 1)
RECURSIVE Accumulate(_, _, _)
Accumulate(g, tr, k) ==
    IF k > Len(tr) THEN g
    ELSE Accumulate(AddContributions(g, tr[k].node, tr[k].grad, 1), tr, k + 1)

\* C22: backward(root) assigns a grad only once, root.grad = 1.0; every
\* other write adds (consumer.grad * local partial) to an operand's grad;
\* when the call returns root.grad is exactly 1.0 whatever it was before.
C22_SeedIsTheOnlyAssignment ==
    [][\A r \in Ids : Backward(r) =>
          /\ nodes'[r].grad = D(1)
          /\ nodes' = Accumulate([nodes EXCEPT ![r].grad = D(1)], trace', 1)
      ]_vars

\* A second backward has run from a root that an earlier backward had
\* reached through a consumer, and has applied the edges of three nodes.
C22_Witness ==
    /\ AfterBackward /\ passes = 2
    /\ Len(trace) >= 3
    /\ nodes[last.root].grad = D(1)
    /\ \E m \in Ids :
          /\ last.root \in Targets(nodes, m)
          /\ nodes[m].grad = D(1)
          /\ LocalPartial(nodes, m, 1) # D(0)

\* ------------------------------------------------------------------ C23
\* The number of operands of the operation that created a node.
Arity(op) ==
    CASE op = "leaf" -> 0
      [] op \in {"neg", "pow", "sin", "cos", "exp", "log"} -> 1
      [] op \in {"add", "sub", "mul", "div"} -> 2

\* C23: in every reachable state each node has exactly as many edges as the
\* arity of the operation that created it (two also when both operands are
\* the same node), and no step changes the count.
C23_EdgeCountIsArity ==
    /\ [](\A n \in Ids : Len(Edges(n)) = Arity(nodes[n].op))
    /\ [][\A n \in Ids :
            /\ n \in DOMAIN nodes'
            /\ Len(nodes'[n].backward_edges) = Len(Edges(n))]_vars

\* A binary operation on one node twice and a unary operation on its result
\* exist after a backward pass.
C23_Witness ==
    /\ Len(nodes) = 3 /\ passes >= 1
    /\ nodes[1].op = "leaf" /\ Len(Edges(1)) = 0
    /\ nodes[2].op \in {"add", "sub", "mul", "div"}
    /\ Len(Edges(2)) = 2 /\ Operand(2, 1) = 1 /\ Operand(2, 2) = 1
    /\ nodes[3].op \in {"neg", "pow", "sin", "cos", "exp", "log"}
    /\ Len(Edges(3)) = 1 /\ Operand(3, 1) = 2
    /\ nodes[1].grad # 0

\* ------------------------------------------------------------------ C25
\* The positions of node n in the sequence o.
Pos(o, n) == {i \in DOMAIN o : o[i] = n}
\* Node m stands strictly before node n in o, both once.
Before(o, m, n) ==
    /\ Cardinality(Pos(o, m)) = 1 /\ Cardinality(Pos(o, n)) = 1
    /\ \A i \in Pos(o, m), j \in Pos(o, n) : i < j

\* C25 as stated: in the sequence topo_sort produces any consumer of a node
\* stands strictly before that node, and also strictly before it in the
\* reversed sequence that backward processes.
C25_ConsumerBeforeNodeInBothOrders ==
    \A r \in Ids :
        LET o == TopoOrder(nodes, r) IN
        \A m \in Reach(nodes, r) : \A n \in Targets(nodes, m) :
            Before(o, m, n) /\ Before(Reverse(o), m, n)

\* C25: in the sequence topo_sort produces (post-order) any consumer of a
\* node stands strictly after that node, and strictly before it in the
\* reversed sequence, which is the sequence backward processes.
C25_ConsumerAfterNodeThenBeforeReversed ==
    /\ \A r \in Ids :
          LET o == TopoOrder(nodes, r) IN
          \A m \in Reach(nodes, r) : \A n \in Targets(nodes, m) :
              Before(o, n, m) /\ Before(Reverse(o), m, n)
    /\ AfterBackward =>
          [i \in DOMAIN trace |-> trace[i].node]
             = Reverse(TopoOrder(nodes, last.root))

\* backward has processed a graph of 4 nodes in which one node has two
\* consumers, one of them consuming the other.
C25_Witness ==
    /\ AfterBackward /\ Len(trace) = 4
    /\ \E n, m, k \in Reach(nodes, last.root) :
          /\ n \in Targets(nodes, m) /\ n \in Targets(nodes, k)
          /\ m \in Targets(nodes, k)
          /\ Before(TopoOrder(nodes, last.root), n, m)
          /\ Before(TopoOrder(nodes, last.root), m, k)

\* ------------------------------------------------------------------ C26
\* A traversal has begun and its outermost call has returned.
Returned == ~walk.run /\ walk.n > 0
\* Each node stands at most once in the sequence o.
NoRepeat(o) == \A i, j \in DOMAIN o : o[i] = o[j] => i = j

\* C26: on every graph built through the builders, backward(root) and
\* zero_grad(root) terminate: a traversal in progress always has a next step
\* and each step lowers the bound Rank on the steps left; the body of the
\* traversal is entered at most once for each reachable node; and the call
\* that has returned has run to completion: it has entered every reachable
\* node, topo_sort has produced the whole order, zero_grad has left every
\* reachable grad 0.
C26_TraversalsTerminate ==
    /\ [](walk.run =>
            /\ NoRepeat(walk.entered)
            /\ {walk.entered[i] : i \in DOMAIN walk.entered}
                  \subseteq Reach(nodes, walk.root)
            /\ AtEntry \/ (AtEdge /\ Len(walk.stack) < MaxDepth)
                  \/ AtEnd \/ AtReturn
            /\ Rank(nodes, walk) >= 0)
    /\ [](Returned =>
            /\ NoRepeat(walk.entered)
            /\ {walk.entered[i] : i \in DOMAIN walk.entered}
                  = Reach(nodes, walk.root)
            /\ walk.kind = "topo" => walk.order = TopoOrder(nodes, walk.root)
            /\ walk.kind = "zero" =>
                  \A n \in Reach(nodes, walk.root) : nodes[n].grad = 0)
    /\ [][(walk.run /\ WalkStep) => Rank(nodes', walk') < Rank(nodes, walk)]_vars

\* backward has returned from a graph of 4 built nodes, one of them reached
\* along two edges, after entering each of the four once.
C26_Witness ==
    /\ Returned /\ walk.kind = "topo" /\ last.op = "backward"
    /\ Len(nodes) = 4 /\ Len(walk.entered) = 4 /\ Len(walk.order) = 4
    /\ \E n \in Reach(nodes, walk.root) :
          Cardinality(Consumers(walk.root, n)) >= 2

\* ------------------------------------------------------------------ C27
\* The Vars no PyVar has ever owned: the constants get_var made of numbers.
Promoted == Ids \ {pyvars[h].var : h \in DOMAIN pyvars}
\* The step is a binary number method called with the number k as its
\* operand i and a PyVar as the other.
IsLiteralCall(k, i) ==
    \E v \in PyVars :
        LET a == IF i = 1 THEN k ELSE v
            b == IF i = 1 THEN v ELSE k
        IN  Var_add(a, b) \/ Var_sub(a, b) \/ Var_mul(a, b)

\* C27: a number passed as an operand is promoted to a fresh node with that
\* value, grad 0 and no edges, which the result's edge for that operand
\* targets; in backward it receives (consumer's grad * local partial) like
\* any operand, added to the grad it has, and, having no edges, passes
\* nothing on.
C27_LiteralIsPromotedToLeaf ==
    /\ [][\A k \in Numbers : \A i \in {1, 2} :
            IsLiteralCall(k, i) =>
               /\ Len(nodes') = Len(nodes) + 2
               /\ \A n \in Ids : nodes'[n] = nodes[n]
               /\ nodes'[Len(nodes) + 1] = Var(k.at, "leaf", <<>>)
               /\ Len(nodes'[Len(nodes) + 2].backward_edges) = 2
               /\ nodes'[Len(nodes) + 2].backward_edges[i].input
                     = Len(nodes) + 1
               /\ pyvars'[Len(pyvars')].var = Len(nodes) + 2]_vars
    /\ [](Running =>
            \A c \in Promoted :
               /\ Edges(c) = <<>>
               /\ {m \in Ids : c \in Targets(nodes, m)} = {c + 1})
    /\ [][\A h \in Handles : Var_backward(h) =>
            \A c \in Promoted : \A i \in DOMAIN Edges(c + 1) :
               Operand(c + 1, i) = c =>
                  nodes'[c].grad =
                     IF c + 1 \in Reach(nodes, pyvars[h].var)
                     THEN dadd(nodes[c].grad,
                               dmul(nodes'[c + 1].grad,
                                    LocalPartial(nodes, c + 1, i)))
                     ELSE nodes[c].grad]_vars

\* backward has run through a product of a PyVar and a number: the constant
\* holds the PyVar's value as its grad.
C27_Witness ==
    /\ AfterBackward /\ Running
    /\ \E c \in Promoted :
          /\ nodes[c + 1].op = "mul" /\ Operand(c + 1, 2) = c
          /\ c + 1 \in Reach(nodes, last.root)
          /\ nodes[c].val = D(3) /\ nodes[c].grad = D(2)
          /\ nodes[Operand(c + 1, 1)].grad = D(3)

\* ------------------------------------------------------------------ C28
\* The sum, over the edges i.. of node m that target n, of m's grad in heap
\* h times the edge's local partial.
RECURSIVE EdgeContributions(_, _, _, _)
EdgeContributions(h, m, n, i) ==
    IF i > Len(h[m].backward_edges) THEN 0
    ELSE (IF h[m].backward_edges[i].input = n
          THEN dmul(h[m].grad, LocalPartial(h, m, i)) ELSE 0)
         + EdgeContributions(h, m, n, i + 1)
\* The same sum over the edges of the nodes m.. reachable from r.
RECURSIVE Contributions(_, _, _, _)
Contributions(h, r, n, m) ==
    IF m > Len(h) THEN 0
    ELSE (IF m \in Reach(h, r) THEN EdgeContributions(h, m, n, 1) ELSE 0)
         + Contributions(h, r, n, m + 1)

Owners(n) == {h \in DOMAIN pyvars : pyvars[h].var = n}

IsExactProduct(x, y) == dmul(x, y) * Unit = x * y
IsExactSum(x, y) == dadd(x, y) = x + y
IsExactDifference(x, y) == dsub(x, y) = x - y

\* Forward mode rounded nothing in the derivative of node k.
ForwardExactAt(k) ==
    LET a == duals[Operand(k, 1)]
        b == duals[Operand(k, 2)]
    IN  CASE nodes[k].op = "add" -> IsExactSum(a.grad, b.grad)
          [] nodes[k].op = "sub" -> IsExactDifference(a.grad, b.grad)
          [] nodes[k].op = "mul" ->
                /\ IsExactProduct(a.grad, b.val)
                /\ IsExactProduct(a.val, b.grad)
                /\ IsExactSum(dmul(a.grad, b.val), dmul(a.val, b.grad))
          [] OTHER -> TRUE
ForwardExact(r) == \A k \in Reach(nodes, r) : ForwardExactAt(k)

\* Reverse mode rounded nothing: replaying the visits tr[k..] on heap g, no
\* product of a grad with a local partial and no addition to a grad is
\* rounded.
RECURSIVE ExactEdges(_, _, _, _)
ExactEdges(g, m, c, i) ==
    IF i > Len(g[m].backward_edges) THEN TRUE
    ELSE LET n == g[m].backward_edges[i].input
             p == LocalPartial(g, m, i)
         IN  /\ IsExactProduct(c, p)
             /\ IsExactSum(g[n].grad, dmul(c, p))
             /\ ExactEdges([g EXCEPT ![n].grad = @ + dmul(c, p)], m, c, i + 1)
RECURSIVE ExactVisits(_, _, _)
ExactVisits(g, tr, k) ==
    IF k > Len(tr) THEN TRUE
    ELSE /\ ExactEdges(g, tr[k].node, tr[k].grad, 1)
         /\ ExactVisits(AddContributions(g, tr[k].node, tr[k].grad, 1),
                        tr, k + 1)
\* The heap as backward(r) from zero grads has it after the seed.
ZeroSeeded(r) ==
    [n \in DOMAIN nodes |->
        [nodes[n] EXCEPT !.grad = IF n = r THEN D(1) ELSE 0]]
ReverseExact(r) == ExactVisits(ZeroSeeded(r), trace, 1)

\* backward has run once, from zero grads, on an expression of the
\* variable (Var 1, Dual 1) evaluated in both modes.
BothModesDone ==
    /\ AfterBackward /\ last.zero /\ passes = 1
    /\ Len(duals) = Len(nodes)

\* C30 as stated: forward mode and reverse mode agree: the grad of the Dual
\* result computed from x seeded with derivative 1 equals x.grad after
\* backward on the same expression from zero grads, and both result values
\* are equal.
C30_ForwardEqualsReverse ==
    BothModesDone =>
       /\ nodes[1].grad = duals[last.root].grad
       /\ nodes[last.root].val = duals[last.root].val

\* C30: the two result values are always equal, and the two derivatives
\* are equal whenever neither mode has rounded a product or a sum of its
\* derivative computation.
C30_ForwardEqualsReverseWhenExact ==
    BothModesDone =>
       /\ nodes[last.root].val = duals[last.root].val
       /\ ForwardExact(last.root) /\ ReverseExact(last.root)
             => nodes[1].grad = duals[last.root].grad

\* x*x + 3*x at x = 2: value 10 and derivative 7 in both modes.
C30_Witness ==
    /\ BothModesDone
    /\ Len(nodes) = 5 /\ last.root = 5
    /\ nodes[1].val = D(2) /\ IsLeaf(1)
    /\ \E c, s, t \in 2 .. 4 :
          /\ IsLeaf(c) /\ nodes[c].val = D(3)
          /\ nodes[s].op = "mul" /\ Operand(s, 1) = 1 /\ Operand(s, 2) = 1
          /\ nodes[t].op = "mul" /\ Operand(t, 1) = c /\ Operand(t, 2) = 1
          /\ nodes[5].op = "add" /\ Operand(5, 1) = s /\ Operand(5, 2) = t
    /\ ForwardExact(5) /\ ReverseExact(5)
    /\ nodes[5].val = D(10) /\ duals[5].val = D(10)
    /\ nodes[1].grad = D(7) /\ duals[5].grad = D(7)

\* ------------------------------------------------------------------ C24
\* Edge i of node m applied to st = [g, exact]: the addition backward makes
\* for it, exact telling whether every product and sum so far was held
\* without rounding.
ApplyEdge(st, m, i) ==
    LET e == st.g[m].backward_edges[i]
        c == grad_fn(st.g, m, e)
    IN  [g     |-> [st.g EXCEPT ![e.input].grad = dadd(@, c)],
         exact |-> /\ st.exact
                   /\ IsExactProduct(st.g[m].grad, LocalPartial(st.g, m, i))
                   /\ IsExactSum(st.g[e.input].grad, c)]
\* The edges of node m applied in the order p[j], p[j + 1], ..
RECURSIVE ApplyEdgesIn(_, _, _, _)
ApplyEdgesIn(st, m, p, j) ==
    IF j > Len(p) THEN st
    ELSE ApplyEdgesIn(ApplyEdge(st, m, p[j]), m, p, j + 1)
\* Every order of the edges of node m.
EdgeOrders(g, m) ==
    LET k == Len(g[m].backward_edges)
    IN  {p \in [1 .. k -> 1 .. k] : \A i, j \in 1 .. k : p[i] = p[j] => i = j}
\* The nodes of `pending` with no consumer left in it.
Ready(g, pending) ==
    {m \in pending : \A c \in pending : m \notin Targets(g, c)}
\* The outcomes of processing the nodes of `pending` in every order in which
\* every consumer precedes its operands, each node's edges in every order.
RECURSIVE Outcomes(_, _)
Outcomes(st, pending) ==
    IF pending = {} THEN {st}
    ELSE UNION {UNION {Outcomes(ApplyEdgesIn(st, m, p, 1), pending \ {m}) :
                          p \in EdgeOrders(st.g, m)} :
                   m \in Ready(st.g, pending)}
OutcomesOfBackward(r) ==
    Outcomes([g |-> seed(nodes, r), exact |-> TRUE], Reach(nodes, r))

\* C24 as stated: processing the nodes in any order in which every consumer
\* precedes its operands, and each node's edges in any order, yields the
\* same final grad on every node as the order the code uses.
C24_AnyOrderSameGrads ==
    [][\A r \in Ids : Backward(r) =>
          \A o \in OutcomesOfBackward(r) : o.g = nodes'
      ]_vars

\* C24: the order the code uses is one of those orders, and every such
\* order that rounds no product and no sum yields the same final grad on
\* every node as the code's order whenever the code's order rounds none
\* either.
C24_AnyExactOrderSameGrads ==
    [][\A r \in Ids : Backward(r) =>
          LET all == OutcomesOfBackward(r)
          IN  /\ \E o \in all : o.g = nodes'
              /\ ExactVisits(seed(nodes, r), trace', 1)
                    => \A o \in all : o.exact => o.g = nodes'
      ]_vars

\* backward has run on a root with two consumers of the variable, neither
\* of them a consumer of the other, so that the variable's grad is the sum
\* of four contributions that two node orders and four edge orders add up
\* differently; nothing was rounded.
C24_Witness ==
    /\ BothModesDone /\ ReverseExact(last.root)
    /\ \E s, t \in Reach(nodes, last.root) :
          /\ s # t
          /\ Len(Edges(s)) = 2 /\ Operand(s, 1) = 1 /\ Operand(s, 2) = 1
          /\ Len(Edges(t)) = 2 /\ Operand(t, 1) = 1 /\ Operand(t, 2) = 1
          /\ nodes[s].op = "mul" /\ nodes[t].op = "add"
          /\ Consumers(last.root, s) = {last.root}
          /\ Consumers(last.root, t) = {last.root}
    /\ nodes[1].grad # 0

=============================================================================
